---- MODULE Spec2Model ----
(***************************************************************************)
(* Request-execution pipeline of the exchange client library:              *)
(*   shared/functions.py     execute_request  (retry / backoff engine)     *)
(*   shared/rate_limiter.py  acquire          (per-key minimum spacing)    *)
(*   shared/exceptions.py    RequestFailed, ApiError                       *)
(*                                                                         *)
(* Time is counted in tenths of a second.  The callbacks send, read and    *)
(* check are the caller's: each of their calls picks one of the outcomes   *)
(* a callback can have (return a value or raise).                          *)
(***************************************************************************)
EXTENDS Integers, Sequences, FiniteSets, TLC

\* ------------------------------------------------------------------ bounds
MaxRetries == 3
MaxDelay == 1
MaxBackoff == 2
MaxTime == 10
MaxSetBack == 2
MaxWrapperRetries == 2
MaxCalls == 2
MaxInvocations == 2

\* ------------------------------------------------- constants of the program
\* shared/rate_limiter.py:4   INTERVAL = 0.5 seconds, in tenths of a second
INTERVAL == 5
\* integrations.shared.settings (imported at shared/functions.py:6)
RETRIES == 3
DELAY == 1
BACKOFF == 2

VARIABLES
    \* ---- execute_request: one invocation (shared/functions.py:10-72)
    pc,          \* the statement execute_request is at
    settings,    \* the mapping passed as `settings`
    attempt,     \* local `attempt`
    errors,      \* local `errors`
    response,    \* local `response`
    body,        \* local `body`
    retries,     \* local `retries`
    delay,       \* local `delay`
    backoff,     \* local `backoff`
    exc,         \* the exception being handled (`e` of the except clauses)
    result,      \* how the invocation ended: returned value or raised exception
    log,         \* the callback calls and sleeps of the invocation, in order
    outcomes,    \* what each attempt of the invocation ended with, in order
    \* ---- rate limiter (shared/rate_limiter.py)
    now,         \* reading of time.time()
    state,       \* module-level dict `state`: key -> time of last acquire
    tpc,         \* per thread: the statement of acquire the thread is at
    tkey,        \* per thread: argument `key`
    clock_read,  \* per thread: value of time.time() read at line 11 (kept to the return)
    elapsed_time,\* per thread: local `elapsed_time`
    wake,        \* per thread: the time its time.sleep(wait_time) ends / ended
    returned,    \* per key: the times of the last two returns of acquire(key)
    \* ---- endpoint wrapper: one call (exchanges/*)
    wpc,         \* the statement the wrapper is at
    wname,       \* the wrapper function called
    wkwargs,     \* its **kwargs
    wlogged,     \* whether its except clause has called logger.error
    wresult,     \* how the call ended: returned value or raised exception
    wacquired,   \* how many times acquire has returned to the wrapper in this call
    \* ---- the caller
    wcalled,     \* the wrappers whose acquire has returned so far
    invocations, \* the invocations of execute_request made with one settings object
    \* ---- request signing (shared/exchange/*.py)
    wsigns,      \* how many times the wrapper's request has been signed in this call
    wauth,       \* the timestamp and signature held by the dict the wrapper signs
    wsent        \* the timestamp and signature of each request handed to http, in order

execVars == <<pc, settings, attempt, errors, response, body, retries, delay,
              backoff, exc, result, log, outcomes>>
limiterVars == <<now, state, tpc, tkey, clock_read, elapsed_time, wake, returned>>
signVars == <<wsigns, wauth, wsent>>
wrapperVars == <<wpc, wname, wkwargs, wlogged, wresult, wacquired, wcalled, invocations,
                 wsigns, wauth, wsent>>
vars == <<pc, settings, attempt, errors, response, body, retries, delay,
          backoff, exc, result, log, outcomes,
          now, state, tpc, tkey, clock_read, elapsed_time, wake, returned,
          wpc, wname, wkwargs, wlogged, wresult, wacquired, wcalled, invocations,
          wsigns, wauth, wsent>>

\* =========================================================================
\*  Values
\* =========================================================================

\* HTTP status codes a response can carry: one 2xx, one 3xx, one 4xx, one 5xx.
Statuses == {200, 304, 404, 503}

\* Python's None for `response` and `body`.
None == [id |-> 0, status |-> 0]
NoBody == [from |-> 0]

\* The response object returned by the send of attempt n.
Response(n, s) == [id |-> n, status |-> s]

\* What read(response) returns: the body parsed from that response.
BodyOf(r) == [from |-> r.id]

\* Exception classes.  HTTPError is requests.exceptions.HTTPError;
\* ConnectionError stands for the network errors and timeouts of the transport,
\* JSONDecodeError for a body that cannot be parsed, TypeError for an exception
\* nobody expects (a programming error inside the callback).
SendRaises == {"HTTPError", "ConnectionError", "TypeError"}
ReadRaises == {"HTTPError", "JSONDecodeError", "TypeError"}
CheckRaises == {"ApiError", "KeyError"}

\* An exception object.
Exc(type, origin, n, reason, errs, r, b) ==
    [type |-> type, origin |-> origin, attempt |-> n, reason |-> reason,
     errors |-> errs, response |-> r, body |-> b]

CallbackExc(type, origin, n) == Exc(type, origin, n, "", <<>>, None, NoBody)

NoExc == Exc("", "", 0, "", <<>>, None, NoBody)

\* shared/exceptions.py:1-10  RequestFailed(message, errors)
RequestFailed(message, n, errs) ==
    Exc("RequestFailed", "execute_request", n, message, errs, None, NoBody)

\* shared/exceptions.py:12-19  ApiError(message, response=..., body=...), and
\* any other exception check raises.
CheckExc(type, n, r, b) ==
    IF type = "ApiError" THEN Exc(type, "check", n, "", <<>>, r, b)
    ELSE CallbackExc(type, "check", n)

\* (variant: client errors let through to read)
RaisesForStatus_ServerOnly(r) == 500 <= r.status /\ r.status < 600

\* response.raise_for_status(): raises HTTPError for 4xx and 5xx only.
RaisesForStatus(r) == 400 <= r.status /\ r.status < 600

\* ---- settings: a dict with optional keys
SettingKeys == {"retries", "delay", "backoff", "full"}

\* a dict stores nothing for a key it does not have
WellFormed(s) ==
    /\ ("retries" \notin s.has => s.retries = 0)
    /\ ("delay" \notin s.has => s.delay = 1)
    /\ ("backoff" \notin s.has => s.backoff = 1)
    /\ ("full" \notin s.has => s.full = FALSE)

\* 'full' is read at line 71 alone and 'delay', 'backoff' at lines 45-46
\* alone: the settings enumerated set either 'full' or the waiting times.
OneConcern(s) == "full" \in s.has => s.has \cap {"delay", "backoff"} = {}

\* the settings a caller passes
Settings ==
    { s \in [has : SUBSET SettingKeys, retries : 0..MaxRetries, delay : 1..MaxDelay,
             backoff : 1..MaxBackoff, full : BOOLEAN] :
        WellFormed(s) /\ OneConcern(s) }

\* settings.get(key, default)
Get(s, key, default) == IF key \in s.has THEN s[key] ELSE default

\* truth value of settings.get('full') (None when the key is absent)
Full(s) == IF "full" \in s.has THEN s.full ELSE FALSE

\* ---- results
NoValue == [shape |-> "", response |-> None, body |-> NoBody]
NoResult == [kind |-> "none", value |-> NoValue, exc |-> NoExc]
Returned(v) == [kind |-> "return", value |-> v, exc |-> NoExc]
Raised(e) == [kind |-> "raise", value |-> NoValue, exc |-> e]

\* the two shapes of the return value (shared/functions.py:71-72)
BodyAlone(b) == [shape |-> "body", response |-> None, body |-> b]
Pair(r, b) == [shape |-> "pair", response |-> r, body |-> b]

\* ---- log entries
Event(op, n, r, b) == [op |-> op, n |-> n, response |-> r, body |-> b]

\* =========================================================================
\*  execute_request  (shared/functions.py:10-72)
\* =========================================================================

\* (variant: errors and delay kept from the invocation before)
Call_KeepsLocals(s) ==
    /\ pc \in {"idle", "done"}
    /\ pc = "done" => s = settings
    /\ settings' = s
    /\ attempt' = 0
    /\ errors' = errors
    /\ response' = None
    /\ body' = NoBody
    /\ retries' = Get(s, "retries", RETRIES)
    /\ delay' = (IF pc = "done" THEN delay ELSE Get(s, "delay", DELAY))
    /\ backoff' = Get(s, "backoff", BACKOFF)
    /\ exc' = NoExc
    /\ result' = NoResult
    /\ log' = <<>>
    /\ outcomes' = <<>>
    /\ pc' = "while"
    /\ UNCHANGED limiterVars

\* lines 41-47: the locals at the start of an invocation.  A caller passes any
\* settings; a later invocation is shown with the settings object of the one
\* before it (the locals are fresh either way).
Call(s) ==
    /\ pc \in {"idle", "done"}
    /\ pc = "done" => s = settings
    /\ settings' = s
    /\ attempt' = 0
    /\ errors' = <<>>
    /\ response' = None
    /\ body' = NoBody
    /\ retries' = Get(s, "retries", RETRIES)
    /\ delay' = Get(s, "delay", DELAY)
    /\ backoff' = Get(s, "backoff", BACKOFF)
    /\ exc' = NoExc
    /\ result' = NoResult
    /\ log' = <<>>
    /\ outcomes' = <<>>
    /\ pc' = "while"
    /\ UNCHANGED limiterVars

\* line 49: while attempt < retries
LoopCondition == attempt < retries

\* (variant: the client-error range taken for the redirect range)
NonRetryable_Below400(r) == r.status < 400

\* line 60: the status codes treated as non-retryable
NonRetryable(r) == r.status < 500

\* (variant: the budget test never true)
BudgetExhausted_Never == FALSE

\* (variant: the budget test one attempt late)
BudgetExhausted_Late == attempt = retries + 1

\* line 66: if attempt == retries
BudgetExhausted == attempt = retries

\* (variant: the delay grown by addition)
NextDelay_Additive(d, b) == d + b

\* line 68: delay *= backoff
NextDelay(d, b) == d * b

\* (variant: the list restarted at each failure)
Recorded_OnlyLast(errs, e) == <<e>>

\* lines 59, 65: errors.append(e)
Recorded(errs, e) == Append(errs, e)

\* (variant: the exception of check wrapped like a transport failure)
Escapes_Wrapped(e) == Raised(RequestFailed("check", e.attempt, <<e>>))

\* line 70 stands outside the try statement: an exception of check leaves
\* execute_request as it is
Escapes(e) == Raised(e)

\* the except clause that catches an exception of class `type` (lines 56, 62)
Handler(type) == IF type = "HTTPError" THEN "except_http" ELSE "except_exc"

\* (variant: the attempt counter never advanced)
While_NoIncrement ==
    /\ pc = "while"
    /\ pc' = (IF LoopCondition THEN "send" ELSE "check")
    /\ UNCHANGED <<settings, attempt, errors, response, body, retries, delay, backoff,
                   exc, result, log, outcomes>>
    /\ UNCHANGED limiterVars
    /\ UNCHANGED wrapperVars

\* lines 49-50
While ==
    /\ pc = "while"
    /\ IF LoopCondition
         THEN /\ attempt' = attempt + 1
              /\ pc' = "send"
         ELSE /\ pc' = "check"
              /\ UNCHANGED attempt
    /\ UNCHANGED <<settings, errors, response, body, retries, delay, backoff,
                   exc, result, log, outcomes>>
    /\ UNCHANGED limiterVars
    /\ UNCHANGED wrapperVars

\* line 52: response = send().  send returns a response or raises; `response`
\* is assigned only when it returns.
Send ==
    /\ pc = "send"
    /\ log' = Append(log, Event("send", attempt, None, NoBody))
    /\ \/ \E s \in Statuses :
            /\ response' = Response(attempt, s)
            /\ pc' = "raise_for_status"
            /\ UNCHANGED <<exc, outcomes>>
       \/ \E x \in SendRaises :
            /\ exc' = CallbackExc(x, "send", attempt)
            /\ outcomes' = Append(outcomes, [kind |-> "send_raised", status |-> 0, type |-> x])
            /\ pc' = Handler(x)
            /\ UNCHANGED response
    /\ UNCHANGED <<settings, attempt, errors, body, retries, delay, backoff, result>>
    /\ UNCHANGED limiterVars

\* line 53: response.raise_for_status()
RaiseForStatus ==
    /\ pc = "raise_for_status"
    /\ IF RaisesForStatus(response)
         THEN /\ exc' = CallbackExc("HTTPError", "raise_for_status", attempt)
              /\ outcomes' = Append(outcomes, [kind |-> "status", status |-> response.status,
                                               type |-> "HTTPError"])
              /\ pc' = "except_http"
         ELSE /\ pc' = "read"
              /\ UNCHANGED <<exc, outcomes>>
    /\ UNCHANGED <<settings, attempt, errors, response, body, retries, delay,
                   backoff, result, log>>
    /\ UNCHANGED limiterVars
    /\ UNCHANGED wrapperVars

\* lines 54-55: body = read(response); break.  `body` is assigned only when
\* read returns.
Read ==
    /\ pc = "read"
    /\ log' = Append(log, Event("read", attempt, response, NoBody))
    /\ \/ /\ body' = BodyOf(response)
          /\ outcomes' = Append(outcomes, [kind |-> "ok", status |-> response.status, type |-> ""])
          /\ pc' = "check"
          /\ UNCHANGED exc
       \/ \E x \in ReadRaises :
            /\ exc' = CallbackExc(x, "read", attempt)
            /\ outcomes' = Append(outcomes, [kind |-> "read_raised", status |-> response.status,
                                             type |-> x])
            /\ pc' = Handler(x)
            /\ UNCHANGED body
    /\ UNCHANGED <<settings, attempt, errors, response, retries, delay, backoff, result>>
    /\ UNCHANGED limiterVars
    /\ UNCHANGED wrapperVars

\* lines 56-61: except requests.exceptions.HTTPError as e.  The arguments of
\* logger.warning are evaluated first: response.status_code on None raises
\* AttributeError out of the handler, before errors.append(e).
ExceptHTTP ==
    /\ pc = "except_http"
    /\ IF response = None
         THEN /\ result' = Raised(CallbackExc("AttributeError", "execute_request", attempt))
              /\ pc' = "done"
              /\ UNCHANGED errors
         ELSE /\ errors' = Recorded(errors, exc)
              /\ IF NonRetryable(response)
                   THEN /\ result' = Raised(RequestFailed("non-retryable", attempt, errors'))
                        /\ pc' = "done"
                   ELSE /\ pc' = "budget"
                        /\ UNCHANGED result
    /\ UNCHANGED <<settings, attempt, response, body, retries, delay, backoff,
                   exc, log, outcomes>>
    /\ UNCHANGED limiterVars
    /\ UNCHANGED wrapperVars

\* lines 62-65: except Exception as e
ExceptException ==
    /\ pc = "except_exc"
    /\ errors' = Recorded(errors, exc)
    /\ pc' = "budget"
    /\ UNCHANGED <<settings, attempt, response, body, retries, delay, backoff,
                   exc, result, log, outcomes>>
    /\ UNCHANGED limiterVars
    /\ UNCHANGED wrapperVars

\* line 66
Budget ==
    /\ pc = "budget"
    /\ IF BudgetExhausted
         THEN /\ result' = Raised(RequestFailed("exhausted", attempt, errors))
              /\ pc' = "done"
         ELSE /\ pc' = "sleep"
              /\ UNCHANGED result
    /\ UNCHANGED <<settings, attempt, errors, response, body, retries, delay,
                   backoff, exc, log, outcomes>>
    /\ UNCHANGED limiterVars
    /\ UNCHANGED wrapperVars

\* lines 67-68: time.sleep(delay); delay *= backoff
Sleep ==
    /\ pc = "sleep"
    /\ log' = Append(log, Event("sleep", delay, None, NoBody))
    /\ delay' = NextDelay(delay, backoff)
    /\ pc' = "while"
    /\ UNCHANGED <<settings, attempt, errors, response, body, retries, backoff,
                   exc, result, outcomes>>
    /\ UNCHANGED limiterVars
    /\ UNCHANGED wrapperVars

\* line 70: check(response, body).  An exception of check is not caught.
Check ==
    /\ pc = "check"
    /\ log' = Append(log, Event("check", attempt, response, body))
    /\ \/ /\ pc' = "return"
          /\ UNCHANGED <<exc, result>>
       \/ \E x \in CheckRaises :
            /\ exc' = CheckExc(x, attempt, response, body)
            /\ result' = Escapes(exc')
            /\ pc' = "done"
    /\ UNCHANGED <<settings, attempt, errors, response, body, retries, delay,
                   backoff, outcomes>>
    /\ UNCHANGED limiterVars
    /\ UNCHANGED wrapperVars

\* (variant: the full flag ignored)
ReturnValue_BodyOnly(s, r, b) == BodyAlone(b)

\* lines 71-72
ReturnValue(s, r, b) == IF Full(s) THEN Pair(r, b) ELSE BodyAlone(b)

Return ==
    /\ pc = "return"
    /\ result' = Returned(ReturnValue(settings, response, body))
    /\ pc' = "done"
    /\ UNCHANGED <<settings, attempt, errors, response, body, retries, delay,
                   backoff, exc, log, outcomes>>
    /\ UNCHANGED limiterVars
    /\ UNCHANGED wrapperVars

\* =========================================================================
\*  rate_limiter.acquire  (shared/rate_limiter.py:7-16)
\* =========================================================================
Keys == {"k1", "k2"}
Threads == {"t1", "t2"}
MainThread == "t1"

\* (variant: an unseen key read as acquired just now)
StateGet_DefaultNow(st, key) == IF key \in DOMAIN st THEN st[key] ELSE now

\* state.get(key, 0)
StateGet(st, key) == IF key \in DOMAIN st THEN st[key] ELSE 0

\* (variant: the comparison of line 12 turned round)
MustWait_Inverted(elapsed) == elapsed > INTERVAL

\* line 12: if elapsed_time < INTERVAL
MustWait(elapsed) == elapsed < INTERVAL

\* line 13: wait_time = INTERVAL - elapsed_time
WaitTime(elapsed) == INTERVAL - elapsed

\* the last two returns of acquire(key), oldest first: the time of the return,
\* the thread, and the time its wait ended (0 when it did not wait)
Remember(times, at, by, woke) ==
    LET e == [at |-> at, by |-> by, woke |-> woke] IN
    IF times = <<>> THEN <<e>> ELSE <<times[Len(times)], e>>

\* (variant: the time stored for every key the dict has)
Stored_Everywhere(st, key, time) == [k \in DOMAIN st \cup {key} |-> time]

\* (variant: the dict replaced by one holding the key alone)
Stored_Alone(st, key, time) == key :> time

\* line 16, the assignment state[key] = <time>
Stored(st, key, time) == (key :> time) @@ st

\* (variant: the time read at line 11, before the wait, written back)
WrittenTime_BeforeWait(t) == StateGet(state, tkey[t]) + elapsed_time[t]

\* line 16, right-hand side: time.time(), read anew
WrittenTime(t) == now

\* a caller enters acquire(key) (line 10)
AcquireCall(t, k) ==
    /\ tpc[t] = "idle"
    /\ now <= MaxTime
    /\ tpc' = [tpc EXCEPT ![t] = "time"]
    /\ tkey' = [tkey EXCEPT ![t] = k]
    /\ UNCHANGED <<now, state, clock_read, elapsed_time, wake, returned>>
    /\ UNCHANGED execVars

\* line 11, left operand: time.time()
ReadClock(t) ==
    /\ tpc[t] = "time"
    /\ clock_read' = [clock_read EXCEPT ![t] = now]
    /\ tpc' = [tpc EXCEPT ![t] = "get"]
    /\ UNCHANGED <<now, state, tkey, elapsed_time, wake, returned>>
    /\ UNCHANGED execVars
    /\ UNCHANGED wrapperVars

\* line 11, right operand and assignment:
\* elapsed_time = <time read> - state.get(key, 0)
ReadState(t) ==
    /\ tpc[t] = "get"
    /\ elapsed_time' = [elapsed_time EXCEPT ![t] = clock_read[t] - StateGet(state, tkey[t])]
    /\ tpc' = [tpc EXCEPT ![t] = "if"]
    /\ UNCHANGED <<now, state, tkey, clock_read, wake, returned>>
    /\ UNCHANGED execVars
    /\ UNCHANGED wrapperVars

\* lines 12-15: when the interval has not elapsed, time.sleep(wait_time) is
\* entered: the thread sleeps until at least wait_time from now
Test(t) ==
    /\ tpc[t] = "if"
    /\ IF MustWait(elapsed_time[t])
         THEN /\ wake' = [wake EXCEPT ![t] = now + WaitTime(elapsed_time[t])]
              /\ tpc' = [tpc EXCEPT ![t] = "sleeping"]
         ELSE /\ tpc' = [tpc EXCEPT ![t] = "set"]
              /\ UNCHANGED wake
    /\ UNCHANGED <<now, state, tkey, clock_read, elapsed_time, returned>>
    /\ UNCHANGED execVars
    /\ UNCHANGED wrapperVars

\* line 15: time.sleep(wait_time) returns, not before the time asked for
WakeUp(t) ==
    /\ tpc[t] = "sleeping"
    /\ now >= wake[t]
    /\ wake' = [wake EXCEPT ![t] = now]
    /\ tpc' = [tpc EXCEPT ![t] = "set"]
    /\ UNCHANGED <<now, state, tkey, clock_read, elapsed_time, returned>>
    /\ UNCHANGED execVars
    /\ UNCHANGED wrapperVars

\* line 16: state[key] = time.time(), and acquire returns (its locals are gone)
Write(t) ==
    /\ tpc[t] = "set"
    /\ state' = Stored(state, tkey[t], WrittenTime(t))
    /\ returned' = [returned EXCEPT ![tkey[t]] = Remember(@, now, t, wake[t])]
    /\ tpc' = [tpc EXCEPT ![t] = "idle"]
    /\ tkey' = [tkey EXCEPT ![t] = ""]
    /\ elapsed_time' = [elapsed_time EXCEPT ![t] = 0]
    /\ wake' = [wake EXCEPT ![t] = 0]
    /\ clock_read' = [clock_read EXCEPT ![t] = 0]
    /\ UNCHANGED now
    /\ UNCHANGED execVars

\* the clock advances; it is followed past MaxTime only while a sleeper waits
Tick ==
    /\ \/ now < MaxTime
       \/ \E t \in Threads : tpc[t] = "sleeping" /\ wake[t] > now
    /\ now' = now + 1
    /\ UNCHANGED <<state, tpc, tkey, clock_read, elapsed_time, wake, returned>>
    /\ UNCHANGED execVars
    /\ UNCHANGED wrapperVars

\* time.time() is the wall clock: the system clock is set back (an NTP step, an
\* operator).  time.sleep measures its wait on the monotonic clock, so a step
\* is followed only while no thread sleeps; the steps followed stay within
\* MaxSetBack of MaxTime.
ClockSetBack ==
    /\ now > MaxTime - MaxSetBack
    /\ now <= MaxTime
    /\ \A t \in Threads : tpc[t] # "sleeping"
    /\ now' = now - 1
    /\ UNCHANGED <<state, tpc, tkey, clock_read, elapsed_time, wake, returned>>
    /\ UNCHANGED execVars
    /\ UNCHANGED wrapperVars

\* =========================================================================
\*  Endpoint wrappers  (exchanges/*)
\*    get_kline            bybit/v5/market.py:12-64
\*    get_position_list    kucoin/classic_rest/futures/positions.py:63-110
\*    add_order            kucoin/classic_rest/futures/orders.py:13-58
\*    add_TP_SL_order      kucoin/classic_rest/futures/orders.py:60-107
\*    add_isolated_margin  kucoin/classic_rest/futures/positions.py:167-212
\*    get_positions_history  kucoin/classic_rest/futures/positions.py:113-164
\*    place_order          bitget/futures/trade.py:12-62
\*    get_position_info    bybit/v5/position.py:12-69
\*    query_unified_account_assets  htx/new/usdtm_futures/unified_account.py:11-61
\* =========================================================================
Wrappers ==
    {"get_kline", "get_position_list", "add_order", "add_TP_SL_order",
     "add_isolated_margin", "get_positions_history", "place_order",
     "get_position_info", "query_unified_account_assets"}

\* the key the wrapper passes to rate_limiter.acquire
WrapperKey(f) ==
    CASE f = "get_kline" -> "bybit.v5.market.get_kline"
      [] f = "get_position_list" -> "kucoin.classic_rest.futures.positions.get_position_list"
      [] f = "add_order" -> "kucoin.classic_rest.futures.orders.add_order"
      [] f = "add_TP_SL_order" -> "kucoin.classic_rest.futures.orders.add_TP_SL_order"
      [] f = "add_isolated_margin" -> "kucoin.classic_rest.futures.positions.add_isolated_margin"
      [] f = "get_positions_history" -> "kucoin.classic_rest.futures.positions.get_position_list"
      [] f = "place_order" -> "bitget.futures.trade.place_order"
      [] f = "get_position_info" -> "bybit.v5.position.get_position_info"
      [] f = "query_unified_account_assets" ->
            "htx.new.usdtm_futures.unified_account.query_unified_account_assets"

AllKeys == Keys \cup {WrapperKey(f) : f \in Wrappers}

\* the wrappers whose body stands in try: ... except Exception as e:
\* logger.error(...); raise
HasTry(f) ==
    f \in {"get_kline", "add_order", "add_TP_SL_order", "place_order",
           "get_position_info", "query_unified_account_assets"}

\* the wrapper that posts the order itself instead of calling execute_request
Direct(f) == f = "add_order"

\* the wrappers that call execute_request(send, read, check, retries=1)
PassesKeyword(f) == f \in {"add_TP_SL_order", "add_isolated_margin"}

\* the wrappers that place an order
OrderPlacement(f) == f \in {"add_order", "place_order"}

\* **kwargs with none of the keys execute_request reads
NoKwargs == [has |-> {}, retries |-> 0, delay |-> 1, backoff |-> 1, full |-> FALSE]

\* **kwargs asking for a single attempt: {'retries': 1}
OneAttempt == [has |-> {"retries"}, retries |-> 1, delay |-> 1, backoff |-> 1, full |-> FALSE]

\* **kwargs asking for one retry: {'retries': 2}
TwoAttempts == [has |-> {"retries"}, retries |-> 2, delay |-> 1, backoff |-> 1, full |-> FALSE]

\* the **kwargs a caller passes (session, base_url and timeout are not read by
\* execute_request).  add_order reads 'full' alone; the wrappers that pass
\* retries=1 hand their kwargs to nobody; the others hand them to
\* execute_request as its settings: get_kline is called with a retry budget
\* and possibly a delay, place_order with the default settings (none of the
\* keys), the signed queries of Bybit and HTX with {'retries': 2}, the KuCoin
\* position queries with {'retries': 1}.
Kwargs(f) ==
    IF PassesKeyword(f) THEN {NoKwargs}
    ELSE IF Direct(f) THEN {s \in Settings : s.has \subseteq {"full"}}
    ELSE IF OrderPlacement(f) THEN {NoKwargs}
    ELSE IF f \in {"get_position_info", "query_unified_account_assets"} THEN {TwoAttempts}
    ELSE IF f = "get_kline"
           THEN {s \in Settings : /\ "retries" \in s.has
                                  /\ s.has \subseteq {"retries", "delay"}
                                  /\ s.retries >= 1
                                  /\ s.retries <= MaxWrapperRetries}
    ELSE {OneAttempt}

\* ---- request signing
\* the wrappers of private endpoints: all but get_kline (market.py:58-60
\* sends without signing)
Signed(f) == f # "get_kline"

\* the wrapper that signs its query parameters (unified_account.py:49); the
\* others sign their headers
SignsParams(f) == f = "query_unified_account_assets"

\* a signature: the signing operation of the call that computed it, and the
\* earlier signature its signed string contained (0: none)
Signature(k, j) == [n |-> k, includes |-> j]

\* the timestamp is named by the signing operation that read the clock for it
Auth(k, sig) == [timestamp |-> k, signature |-> sig]

\* a dict that has not been signed
NoAuth == Auth(0, Signature(0, 0))

\* shared/exchange/bybit.py:22-30 (kucoin.py, bitget.py, okx.py, mexc.py
\* alike): the k-th signing reads the clock, signs timestamp + key + window +
\* body and overwrites the timestamp and signature headers
sign_headers(headers, k) == Auth(k, Signature(k, 0))

\* shared/exchange/htx.py:28-36: the k-th signing sets params['Timestamp'],
\* signs method, host, path and ALL the entries of params, the 'Signature'
\* entry left by the signing before included, and then sets
\* params['Signature']
sign_params(params, k) == Auth(k, Signature(k, params.signature.n))

\* the signing call of the wrapper's send
Sign(f, dict, k) == IF SignsParams(f) THEN sign_params(dict, k) ELSE sign_headers(dict, k)

\* what http.post raises (orders.py:50)
PostRaises == {"ConnectionError"}

\* (variant: the except clause without its raise)
Reraised_Swallowed(e) == Returned(NoValue)

\* `raise` in the except clause, or no try statement at all: the exception
\* leaves the wrapper as it is
Reraised(e) == Raised(e)

\* (variant: acquire called over again)
AfterAcquire_Again(f) == "acquire"

\* the statement after rate_limiter.acquire(...): http.post in add_order
\* (orders.py:49-50), the call of execute_request elsewhere (market.py:63)
AfterAcquire(f) == IF Direct(f) THEN "post" ELSE "execute"

\* a caller calls the wrapper; the locals of the call before are gone
WrapperCall(f, kw) ==
    /\ wpc \in {"idle", "done"}
    /\ now <= MaxTime
    /\ Cardinality(DOMAIN state) < MaxCalls
    /\ wname' = f
    /\ wkwargs' = kw
    /\ wlogged' = FALSE
    /\ wresult' = NoResult
    /\ wacquired' = 0
    /\ wpc' = "acquire"
    /\ pc' = "idle"
    /\ settings' = NoKwargs
    /\ attempt' = 0
    /\ errors' = <<>>
    /\ response' = None
    /\ body' = NoBody
    /\ retries' = 0
    /\ delay' = 0
    /\ backoff' = 0
    /\ exc' = NoExc
    /\ result' = NoResult
    /\ log' = <<>>
    /\ outcomes' = <<>>
    /\ wsigns' = 0
    /\ wauth' = NoAuth
    /\ wsent' = <<>>
    /\ UNCHANGED limiterVars
    /\ UNCHANGED <<wcalled, invocations>>

\* rate_limiter.acquire(<key>) is entered (market.py:62, positions.py:109,
\* orders.py:48, orders.py:105, positions.py:211)
WrapperAcquire ==
    /\ wpc = "acquire"
    /\ AcquireCall(MainThread, WrapperKey(wname))
    /\ wpc' = "acquiring"
    /\ UNCHANGED <<wname, wkwargs, wlogged, wresult, wacquired, wcalled, invocations>>
    /\ UNCHANGED signVars

\* acquire returns to the wrapper
WrapperAcquired ==
    /\ wpc = "acquiring"
    /\ Write(MainThread)
    /\ wpc' = AfterAcquire(wname)
    /\ wacquired' = wacquired + 1
    /\ wcalled' = wcalled \cup {wname}
    /\ UNCHANGED <<wname, wkwargs, wlogged, wresult, invocations>>
    /\ UNCHANGED signVars

\* execute_request(send, read, check, kwargs)  (market.py:63, positions.py:110)
WrapperExecute ==
    /\ wpc = "execute"
    /\ ~PassesKeyword(wname)
    /\ Call(wkwargs)
    /\ wpc' = "executing"
    /\ UNCHANGED <<wname, wkwargs, wlogged, wresult, wacquired, wcalled, invocations>>
    /\ UNCHANGED signVars

\* execute_request(send, read, check, retries=1)  (orders.py:106,
\* positions.py:212): execute_request(send, read, check, settings={}) has no
\* parameter `retries`, so the call raises TypeError before its body runs
WrapperKeyword ==
    /\ wpc = "execute"
    /\ PassesKeyword(wname)
    /\ exc' = CallbackExc("TypeError", "execute_request", 0)
    /\ result' = Raised(exc')
    /\ pc' = "done"
    /\ wpc' = "executing"
    /\ UNCHANGED <<settings, attempt, errors, response, body, retries, delay,
                   backoff, log, outcomes>>
    /\ UNCHANGED limiterVars
    /\ UNCHANGED <<wname, wkwargs, wlogged, wresult, wacquired, wcalled, invocations>>
    /\ UNCHANGED signVars

\* the wrapper's send, called at functions.py:52.  position.py:56-58: def
\* send(): bybit.sign_headers(headers, api, recv_window, query); return
\* http.get(url, headers=headers, ...); market.py:58-60 sends unsigned
WrapperSend ==
    /\ wpc = "executing"
    /\ Send
    /\ IF Signed(wname)
         THEN /\ wsigns' = wsigns + 1
              /\ wauth' = Sign(wname, wauth, wsigns')
         ELSE UNCHANGED <<wsigns, wauth>>
    /\ wsent' = Append(wsent, wauth')
    /\ UNCHANGED <<wpc, wname, wkwargs, wlogged, wresult, wacquired, wcalled, invocations>>

\* return execute_request(...)
WrapperReturn ==
    /\ wpc = "executing"
    /\ pc = "done"
    /\ result.kind = "return"
    /\ wresult' = result
    /\ wpc' = "done"
    /\ UNCHANGED <<wname, wkwargs, wlogged, wacquired, wcalled, invocations>>
    /\ UNCHANGED signVars
    /\ UNCHANGED execVars
    /\ UNCHANGED limiterVars

\* execute_request raised: except Exception as e: logger.error(...); raise
\* where the wrapper has a try statement (market.py:64, orders.py:107),
\* nothing where it has none (positions.py:110, positions.py:212)
WrapperExcept ==
    /\ wpc = "executing"
    /\ pc = "done"
    /\ result.kind = "raise"
    /\ wlogged' = HasTry(wname)
    /\ wresult' = Reraised(result.exc)
    /\ wpc' = "done"
    /\ UNCHANGED <<wname, wkwargs, wacquired, wcalled, invocations>>
    /\ UNCHANGED signVars
    /\ UNCHANGED execVars
    /\ UNCHANGED limiterVars

\* orders.py:49-50: kucoin.sign_headers(...); response = http.post(...)
Post ==
    /\ wpc = "post"
    /\ log' = Append(log, Event("send", 1, None, NoBody))
    /\ \/ \E s \in Statuses :
            /\ response' = Response(1, s)
            /\ wpc' = "json"
            /\ UNCHANGED <<exc, outcomes>>
       \/ \E x \in PostRaises :
            /\ exc' = CallbackExc(x, "send", 1)
            /\ outcomes' = Append(outcomes, [kind |-> "send_raised", status |-> 0, type |-> x])
            /\ wpc' = "except"
            /\ UNCHANGED response
    /\ wsigns' = wsigns + 1
    /\ wauth' = Sign(wname, wauth, wsigns')
    /\ wsent' = Append(wsent, wauth')
    /\ UNCHANGED <<pc, settings, attempt, errors, body, retries, delay, backoff, result>>
    /\ UNCHANGED limiterVars
    /\ UNCHANGED <<wname, wkwargs, wlogged, wresult, wacquired, wcalled, invocations>>

\* orders.py:51: body = response.json(), whatever the status of the response
Json ==
    /\ wpc = "json"
    /\ log' = Append(log, Event("read", 1, response, NoBody))
    /\ \/ /\ body' = BodyOf(response)
          /\ outcomes' = Append(outcomes, [kind |-> "ok", status |-> response.status, type |-> ""])
          /\ wpc' = "checks"
          /\ UNCHANGED exc
       \/ /\ exc' = CallbackExc("JSONDecodeError", "read", 1)
          /\ outcomes' = Append(outcomes, [kind |-> "read_raised", status |-> response.status,
                                           type |-> "JSONDecodeError"])
          /\ wpc' = "except"
          /\ UNCHANGED body
    /\ UNCHANGED <<pc, settings, attempt, errors, response, retries, delay, backoff, result>>
    /\ UNCHANGED limiterVars
    /\ UNCHANGED <<wname, wkwargs, wlogged, wresult, wacquired, wcalled, invocations>>
    /\ UNCHANGED signVars

\* orders.py:52-57: the body is not a dict or its code is not '200000':
\* raise ApiError; otherwise return (response, body) or body
InlineChecks ==
    /\ wpc = "checks"
    /\ log' = Append(log, Event("check", 1, response, body))
    /\ \/ /\ wresult' = Returned(ReturnValue(wkwargs, response, body))
          /\ wpc' = "done"
          /\ UNCHANGED exc
       \/ /\ exc' = CheckExc("ApiError", 1, response, body)
          /\ wpc' = "except"
          /\ UNCHANGED wresult
    /\ UNCHANGED <<pc, settings, attempt, errors, response, body, retries, delay,
                   backoff, result, outcomes>>
    /\ UNCHANGED limiterVars
    /\ UNCHANGED <<wname, wkwargs, wlogged, wacquired, wcalled, invocations>>
    /\ UNCHANGED signVars

\* orders.py:58: except Exception as e: logger.error(...); raise
DirectExcept ==
    /\ wpc = "except"
    /\ wlogged' = TRUE
    /\ wresult' = Reraised(exc)
    /\ wpc' = "done"
    /\ UNCHANGED <<wname, wkwargs, wacquired, wcalled, invocations>>
    /\ UNCHANGED signVars
    /\ UNCHANGED execVars
    /\ UNCHANGED limiterVars

\* =========================================================================
\*  Specification of execute_request
\* =========================================================================
InitExec ==
    /\ pc = "idle"
    /\ settings = [has |-> {}, retries |-> 0, delay |-> 1, backoff |-> 1, full |-> FALSE]
    /\ attempt = 0
    /\ errors = <<>>
    /\ response = None
    /\ body = NoBody
    /\ retries = 0
    /\ delay = 0
    /\ backoff = 0
    /\ exc = NoExc
    /\ result = NoResult
    /\ log = <<>>
    /\ outcomes = <<>>

\* no wrapper has been called
InitWrapper ==
    /\ wpc = "idle"
    /\ wname = ""
    /\ wkwargs = NoKwargs
    /\ wlogged = FALSE
    /\ wresult = NoResult
    /\ wacquired = 0
    /\ wcalled = {}
    /\ invocations = 0
    /\ wsigns = 0
    /\ wauth = NoAuth
    /\ wsent = <<>>

InitLimiter ==
    /\ now = INTERVAL
    /\ state = [k \in {} |-> 0]
    /\ tpc = [t \in Threads |-> "idle"]
    /\ tkey = [t \in Threads |-> ""]
    /\ clock_read = [t \in Threads |-> 0]
    /\ elapsed_time = [t \in Threads |-> 0]
    /\ wake = [t \in Threads |-> 0]
    /\ returned = [k \in AllKeys |-> <<>>]

Init == InitExec /\ InitLimiter /\ InitWrapper

Next ==
    \/ pc \in {"idle", "done"} /\ \E s \in Settings : Call(s) /\ UNCHANGED wrapperVars
    \/ While
    \/ Send /\ UNCHANGED wrapperVars
    \/ RaiseForStatus
    \/ Read
    \/ ExceptHTTP
    \/ ExceptException
    \/ Budget
    \/ Sleep
    \/ Check
    \/ Return

Spec == Init /\ [][Next]_vars

\* one settings object used for invocation after invocation
ReuseSettings ==
    {s \in Settings : "retries" \in s.has /\ s.retries < MaxRetries /\ "full" \notin s.has}

NextReuse ==
    \/ /\ invocations < MaxInvocations
       /\ \E s \in ReuseSettings : Call(s)
       /\ invocations' = invocations + 1
       /\ UNCHANGED <<wpc, wname, wkwargs, wlogged, wresult, wacquired, wcalled>>
       /\ UNCHANGED signVars
    \/ While
    \/ Send /\ UNCHANGED wrapperVars
    \/ RaiseForStatus
    \/ Read
    \/ ExceptHTTP
    \/ ExceptException
    \/ Budget
    \/ Sleep
    \/ Check
    \/ Return

SpecReuse == Init /\ [][NextReuse]_vars

\* =========================================================================
\*  Specifications of the rate limiter
\* =========================================================================

\* the clock reading when the process starts
StartTimes == {0, INTERVAL}

InitLimiterAt(times) ==
    /\ InitExec
    /\ InitWrapper
    /\ now \in times
    /\ state = [k \in {} |-> 0]
    /\ tpc = [t \in Threads |-> "idle"]
    /\ tkey = [t \in Threads |-> ""]
    /\ clock_read = [t \in Threads |-> 0]
    /\ elapsed_time = [t \in Threads |-> 0]
    /\ wake = [t \in Threads |-> 0]
    /\ returned = [k \in AllKeys |-> <<>>]

InitClock == InitLimiterAt(StartTimes)

\* one thread calling acquire again and again
NextLimiter ==
    \/ \E k \in Keys : AcquireCall(MainThread, k) /\ UNCHANGED wrapperVars
    \/ ReadClock(MainThread)
    \/ ReadState(MainThread)
    \/ Test(MainThread)
    \/ WakeUp(MainThread)
    \/ Write(MainThread) /\ UNCHANGED wrapperVars
    \/ Tick

SpecLimiter == InitClock /\ [][NextLimiter]_vars

\* one thread calling acquire while the wall clock can be set back
InitWallClock == InitLimiterAt({MaxTime})

NextWallClock ==
    \/ \E k \in Keys : AcquireCall(MainThread, k) /\ UNCHANGED wrapperVars
    \/ ReadClock(MainThread)
    \/ ReadState(MainThread)
    \/ Test(MainThread)
    \/ WakeUp(MainThread)
    \/ Write(MainThread) /\ UNCHANGED wrapperVars
    \/ Tick
    \/ ClockSetBack

SpecWallClock == InitWallClock /\ [][NextWallClock]_vars

\* a caller calling the wrappers one after another, from a time when no key
\* has an entry
InitWrapped == InitLimiterAt({MaxTime})

NextWrapper ==
    \/ \E f \in Wrappers : \E kw \in Kwargs(f) : WrapperCall(f, kw)
    \/ WrapperAcquire
    \/ ReadClock(MainThread)
    \/ ReadState(MainThread)
    \/ Test(MainThread)
    \/ WakeUp(MainThread)
    \/ WrapperAcquired
    \/ Tick
    \/ WrapperExecute
    \/ WrapperKeyword
    \/ While
    \/ WrapperSend
    \/ RaiseForStatus
    \/ Read
    \/ ExceptHTTP
    \/ ExceptException
    \/ Budget
    \/ Sleep
    \/ Check
    \/ Return
    \/ WrapperReturn
    \/ WrapperExcept
    \/ Post
    \/ Json
    \/ InlineChecks
    \/ DirectExcept

SpecWrapper == InitWrapped /\ [][NextWrapper]_vars

\* several threads calling acquire, switched between any two statements
NextThreads ==
    \/ \E t \in Threads, k \in Keys : AcquireCall(t, k) /\ UNCHANGED wrapperVars
    \/ \E t \in Threads : ReadClock(t)
    \/ \E t \in Threads : ReadState(t)
    \/ \E t \in Threads : Test(t)
    \/ \E t \in Threads : WakeUp(t)
    \/ \E t \in Threads : Write(t) /\ UNCHANGED wrapperVars
    \/ Tick

\* the threads make their calls in the last two ticks in which calls are followed
InitThreads == InitLimiterAt({MaxTime - 1})

SpecThreads == InitThreads /\ [][NextThreads]_vars

\* =========================================================================
\*  Properties of execute_request
\* =========================================================================

\* settings.retries as the caller sees it
SettingRetries == Get(settings, "retries", RETRIES)

Sends == {i \in DOMAIN log : log[i].op = "send"}
SleepsInLog == {i \in DOMAIN log : log[i].op = "sleep"}
Checks == {i \in DOMAIN log : log[i].op = "check"}
NumSends == Cardinality(Sends)

Attempts == Len(outcomes)
LastOutcome == outcomes[Len(outcomes)]

Is4xx(s) == 400 <= s /\ s < 500
Is5xx(s) == 500 <= s /\ s < 600

\* an attempt that failed with a 5xx status or with an exception of send/read
FailedRetryably(o) ==
    \/ o.kind = "status" /\ Is5xx(o.status)
    \/ o.kind \in {"send_raised", "read_raised"}

RaisedRequestFailed == pc = "done" /\ result.kind = "raise" /\ result.exc.type = "RequestFailed"

\* check was invoked and raised / returned
CheckRaised == log # <<>> /\ log[Len(log)].op = "check" /\ exc.origin = "check"
CheckPassed == log # <<>> /\ log[Len(log)].op = "check" /\ exc.origin # "check"

\* C1: one invocation with settings.retries >= 1 calls send at most
\* settings.retries times, whatever send and read do.
C1_SendAtMostRetries == SettingRetries >= 1 => NumSends <= SettingRetries

C1_Witness ==
    /\ pc = "done"
    /\ SettingRetries >= 2
    /\ NumSends = SettingRetries
    /\ "retries" \in settings.has

\* C2: once send has returned a response with a 4xx status, that send is the
\* last thing execute_request does besides raising RequestFailed: no send, read,
\* sleep or check follows it, also when attempts remain.
Got4xx == Is4xx(response.status)

C2_ClientErrorEndsAtOnce ==
    Got4xx =>
        /\ pc \in {"raise_for_status", "except_http", "done"}
        /\ log[Len(log)] = Event("send", response.id, None, NoBody)
        /\ response.id = attempt
        /\ pc = "done" => RaisedRequestFailed

C2_Witness == Got4xx /\ RaisedRequestFailed /\ attempt < retries /\ attempt >= 2

\* C3 as stated: a RequestFailed raised because of a 4xx response carries
\* exactly one error, on whatever attempt the response arrived.
C3_Original == (RaisedRequestFailed /\ Got4xx) => Len(result.exc.errors) = 1

\* C3 as amended: a RequestFailed raised because of a 4xx response carries one
\* error per attempt made, in order of the attempts, the last being the
\* HTTPError of the 4xx response; so exactly one when and only when the 4xx
\* response came on the first attempt.
C3_OneErrorPerAttempt ==
    (RaisedRequestFailed /\ Got4xx) =>
        LET errs == result.exc.errors IN
        /\ Len(errs) = attempt
        /\ \A i \in DOMAIN errs : errs[i].attempt = i
        /\ errs[Len(errs)] = CallbackExc("HTTPError", "raise_for_status", attempt)
        /\ (Len(errs) = 1 <=> response.id = 1)

C3_Witness == RaisedRequestFailed /\ Got4xx /\ Len(result.exc.errors) = 3

\* C4: when attempts 1..N-1 fail with a 5xx status or an exception of send or
\* read, N <= retries, and attempt N and check succeed, the invocation returns
\* the body read from the response of attempt N after exactly N sends, and
\* raises nothing.  What an attempt ends with does not depend on the attempts
\* before it, so on the runs of the program this says:
\*  (a) an attempt that fails in one of these ways never ends the invocation
\*      while attempts remain (the next attempt may be the one that succeeds);
\*  (b) a run whose last attempt N succeeded and whose check passed returns
\*      the body of attempt N, with N sends.
C4_Original ==
    /\ (pc = "done" /\ Attempts >= 1 /\ FailedRetryably(LastOutcome))
           => Attempts = SettingRetries
    /\ (pc = "done" /\ Attempts >= 1 /\ LastOutcome.kind = "ok" /\ CheckPassed)
           => /\ result.kind = "return"
              /\ result.value.body = BodyOf(Response(Attempts, LastOutcome.status))
              /\ NumSends = Attempts

\* C5: an exception raised by check leaves execute_request as the same
\* exception object, not a RequestFailed; check is the last call of the
\* invocation (no send or sleep after it); and with a first attempt that
\* succeeded send was called once.
C5_CheckExceptionEscapes ==
    /\ \A i \in Checks : i = Len(log)
    /\ CheckRaised =>
          /\ pc = "done"
          /\ result = Raised(CheckExc(exc.type, attempt, response, body))
          /\ result.exc.type \in CheckRaises
          /\ log[Len(log)] = Event("check", attempt, response, body)
          /\ (Attempts >= 1 /\ outcomes[1].kind = "ok") => NumSends = 1

C5_Witness ==
    /\ CheckRaised
    /\ Attempts = 1
    /\ SettingRetries >= 2
    /\ result.exc.type = "ApiError"

\* C6: when each of the settings.retries attempts fails with a 5xx status or an
\* exception of send or read, the invocation raises RequestFailed carrying
\* settings.retries errors, the i-th being the exception of attempt i.
C6_Original ==
    (/\ pc = "done"
     /\ SettingRetries >= 1
     /\ Attempts = SettingRetries
     /\ \A i \in DOMAIN outcomes : FailedRetryably(outcomes[i]))
    => /\ RaisedRequestFailed
       /\ Len(result.exc.errors) = SettingRetries
       /\ \A i \in DOMAIN result.exc.errors :
              /\ result.exc.errors[i].attempt = i
              /\ result.exc.errors[i].type = outcomes[i].type

\* C7: a run that returns gives the pair (response, body) of the successful
\* attempt when settings.full is true and that body alone when it is false or
\* absent; in both cases there was one send per attempt and one call of check.
C7_FullFlag ==
    (pc = "done" /\ result.kind = "return") =>
        /\ Full(settings) => result.value = Pair(response, body)
        /\ ~Full(settings) => result.value = BodyAlone(body)
        /\ Attempts >= 1 =>
              /\ LastOutcome.kind = "ok"
              /\ response = Response(Attempts, LastOutcome.status)
              /\ body = BodyOf(response)
        /\ NumSends = Attempts
        /\ Cardinality(Checks) = 1

C7_Witness ==
    /\ pc = "done"
    /\ result.kind = "return"
    /\ Full(settings)
    /\ result.value.shape = "pair"
    /\ result.value.response.id = 2

\* C10: whatever send, read and check do, an exception leaving execute_request
\* is a RequestFailed or the exception check raised.
C10_Original ==
    (pc = "done" /\ result.kind = "raise") =>
        \/ result.exc.type = "RequestFailed"
        \/ result.exc.origin = "check"

\* the exception of attempt i was one nobody expects
Unexpected(o) == o.kind \in {"send_raised", "read_raised"} /\ o.type = "TypeError"

\* C11: an unexpected exception raised by send or read (here TypeError) leaves
\* execute_request as it is: the attempt that raised it is the last one, the
\* exception is not collected for a RequestFailed, and the invocation ends
\* raising that TypeError.
C11_Original ==
    \A i \in DOMAIN outcomes :
        Unexpected(outcomes[i]) =>
            /\ i = Len(outcomes)
            /\ \A j \in DOMAIN errors : errors[j].type # "TypeError"
            /\ pc = "done" =>
                  /\ result.kind = "raise"
                  /\ result.exc.type = "TypeError"
                  /\ result.exc.attempt = i

Reads == {i \in DOMAIN log : log[i].op = "read"}
Is2xx(s) == 200 <= s /\ s < 300
IsErrorStatus(s) == Is4xx(s) \/ Is5xx(s)

\* the response of the current attempt has been through raise_for_status
StatusSettled ==
    /\ response # None
    /\ response.id = attempt
    /\ pc \notin {"raise_for_status", "except_http"}

LastError == errors[Len(errors)]

\* C12 as stated: read is called with 2xx responses only, and a response whose
\* status is outside 2xx leaves an HTTPError in errors and no body.
C12_Original ==
    /\ \A i \in Reads : Is2xx(log[i].response.status)
    /\ (StatusSettled /\ ~Is2xx(response.status)) =>
          /\ errors # <<>>
          /\ LastError = CallbackExc("HTTPError", "raise_for_status", attempt)
          /\ body.from # response.id

\* C12 as amended: a response with a 4xx or 5xx status is treated as an HTTP
\* error (its HTTPError is appended to errors, read is not called with it, no
\* body comes from it, and an invocation ending on it raises); a response with
\* any other status, 1xx and 3xx included, is handed to read like a 2xx one.
C12_ErrorStatusNotRead ==
    /\ \A i \in Reads : ~IsErrorStatus(log[i].response.status)
    /\ (StatusSettled /\ IsErrorStatus(response.status)) =>
          /\ errors # <<>>
          /\ LastError = CallbackExc("HTTPError", "raise_for_status", attempt)
          /\ body.from # response.id
          /\ pc = "done" => RaisedRequestFailed
    /\ (StatusSettled /\ ~IsErrorStatus(response.status)) =>
          \/ pc = "read"
          \/ \E i \in Reads : log[i].response = response

\* a 5xx response on the first attempt, then a 3xx response read and returned
C12_Witness ==
    /\ pc = "done"
    /\ result.kind = "return"
    /\ Attempts = 2
    /\ outcomes[1].kind = "status"
    /\ Len(errors) = 1
    /\ response.status = 304
    /\ result.value.body = BodyOf(response)

RECURSIVE Pow(_, _)
Pow(b, n) == IF n = 0 THEN 1 ELSE b * Pow(b, n - 1)

\* the sleep at place i of the log is the k-th sleep of the invocation
SleepNumber(i) == Cardinality({j \in SleepsInLog : j <= i})
SendsBefore(i) == Cardinality({j \in Sends : j < i})

\* C13: the k-th sleep of an invocation comes after k sends (after the k-th
\* failed attempt, another attempt remaining) and lasts
\* settings.delay * settings.backoff^(k-1), however large that is.
C13_SleepsGrowGeometrically ==
    \A i \in SleepsInLog :
        LET k == SleepNumber(i) IN
        /\ log[i].n = Get(settings, "delay", DELAY) * Pow(Get(settings, "backoff", BACKOFF), k - 1)
        /\ SendsBefore(i) = k
        /\ k < retries
        /\ k <= Attempts
        /\ FailedRetryably(outcomes[k])

\* retries = 3, backoff = 2, success on attempt 3: the sleeps are d then 2d
C13_Witness ==
    /\ pc = "done"
    /\ result.kind = "return"
    /\ {"retries", "delay", "backoff"} \subseteq settings.has
    /\ settings.retries = 3
    /\ settings.backoff = 2
    /\ Attempts = 3
    /\ Len(log) = 7
    /\ log[2].op = "sleep" /\ log[2].n = settings.delay
    /\ log[4].op = "sleep" /\ log[4].n = 2 * settings.delay

\* the terminal state of the specification's state machine an ended
\* invocation is in
Terminal ==
    CASE result.kind = "return" -> "SUCCESS"
      [] result.kind = "raise" /\ result.exc.type = "RequestFailed"
            /\ result.exc.reason = "non-retryable" -> "FAILED non-retryable"
      [] result.kind = "raise" /\ result.exc.type = "RequestFailed"
            /\ result.exc.reason = "exhausted" -> "FAILED retry-exhausted"
      [] result.kind = "raise" /\ result.exc.origin = "check" -> "FAILED application-error"
      [] OTHER -> "none"

\* C14: an invocation with retries >= 1 ends in one of the four terminal
\* states, each reached by its transition: SUCCESS and FAILED
\* application-error from CHECK after an attempt that succeeded, FAILED
\* non-retryable from SENDING on a 4xx response, FAILED retry-exhausted from
\* RETRY_WAIT after the last attempt failed with a 5xx status or an exception.
C14_Original ==
    (pc = "done" /\ SettingRetries >= 1) =>
        /\ Terminal # "none"
        /\ Attempts >= 1
        /\ Terminal \in {"SUCCESS", "FAILED application-error"} =>
              LastOutcome.kind = "ok" /\ Checks # {}
        /\ Terminal = "FAILED non-retryable" =>
              LastOutcome.kind = "status" /\ Is4xx(LastOutcome.status)
        /\ Terminal = "FAILED retry-exhausted" =>
              FailedRetryably(LastOutcome) /\ Attempts = SettingRetries

C25_SleepsBetweenSends ==
    /\ \A i \in SleepsInLog :
          /\ i > 1
          /\ log[i - 1].op \in {"send", "read"}
          /\ i < Len(log) => log[i + 1].op = "send"
          /\ pc = "done" => i < Len(log)
    /\ (pc = "done" /\ NumSends >= 1) => Cardinality(SleepsInLog) = NumSends - 1

\* three sends, two sleeps, then RequestFailed
C25_Witness ==
    /\ RaisedRequestFailed
    /\ NumSends = 3
    /\ Cardinality(SleepsInLog) = 2
    /\ log[Len(log)].op # "sleep"

\* C26: a value is returned only after at least one send, the last of which
\* succeeded; with settings.retries <= 0 there is no send, no value is
\* returned and check is not invoked with a missing response.
C26_Original ==
    /\ (pc = "done" /\ result.kind = "return") =>
          /\ NumSends >= 1
          /\ Attempts >= 1
          /\ LastOutcome.kind = "ok"
    /\ SettingRetries <= 0 =>
          /\ NumSends = 0
          /\ result.kind # "return"
          /\ \A i \in Checks : log[i].response # None

\* C27: when the except clause for HTTPError decides between retrying and
\* giving up, the response whose status it reads is the response of the
\* attempt that failed, not one left by an earlier attempt.
C27_Original ==
    (pc = "except_http" /\ response # None) => response.id = attempt

\* C30: no step of an invocation changes the settings object, and every
\* invocation, the first with a settings object or a later one, reaches its
\* first loop test with attempt 0, no errors, no response, no body and
\* delay = settings.delay (DELAY when the key is absent).
C30_NoStateKept ==
    /\ [](pc = "while" /\ log = <<>> =>
            /\ attempt = 0
            /\ errors = <<>>
            /\ response = None
            /\ body = NoBody
            /\ delay = Get(settings, "delay", DELAY)
            /\ retries = Get(settings, "retries", RETRIES)
            /\ backoff = Get(settings, "backoff", BACKOFF))
    /\ [][pc # "idle" => settings' = settings]_vars

\* the second invocation with one settings object, on its second attempt
\* after a first attempt that was recorded as error 1
C30_Witness ==
    /\ invocations = 2
    /\ pc = "sleep"
    /\ attempt = 1
    /\ Len(errors) = 1
    /\ "delay" \in settings.has
    /\ delay = settings.delay

\* the attempts of the invocation that have failed so far
FailedAttempts == Cardinality({i \in DOMAIN outcomes : outcomes[i].kind # "ok"})

\* inside an except clause before its errors.append(e) (lines 56-58, 62-64),
\* or thrown out of the invocation from there
BeforeAppend ==
    \/ pc \in {"except_http", "except_exc"}
    \/ pc = "done" /\ result.kind = "raise" /\ result.exc.type = "AttributeError"

\* C32: at every statement of an invocation outside the except clauses, and
\* when it ends by return or RequestFailed, errors holds one entry for each
\* attempt that has failed so far (in an except clause the failure being
\* handled is the one not appended yet); everywhere errors is no longer than
\* the attempt counter, and the attempt counter is at most settings.retries.
C32_ErrorsCountFailures ==
    pc # "idle" =>
        /\ Len(errors) = FailedAttempts - (IF BeforeAppend THEN 1 ELSE 0)
        /\ Len(errors) <= attempt
        /\ attempt <= SettingRetries
        /\ RaisedRequestFailed => result.exc.errors = errors /\ Len(errors) = attempt

\* the third attempt succeeded after two recorded failures: errors is
\* shorter than the attempt counter, which has reached settings.retries
C32_Witness ==
    /\ pc = "check"
    /\ attempt = 3
    /\ SettingRetries = 3
    /\ Len(errors) = 2
    /\ FailedAttempts = 2
    /\ LastOutcome.kind = "ok"
    /\ settings.retries >= 2

\* =========================================================================
\*  Properties of the rate limiter
\* =========================================================================

\* the last two returns of acquire(k) are at least INTERVAL apart
Spaced(k) ==
    Len(returned[k]) = 2 => returned[k][2].at - returned[k][1].at >= INTERVAL

\* C8: with one thread, two consecutive calls acquire(key) return at least
\* INTERVAL apart on the limiter's clock, for every key and every order of calls.
C8_ConsecutiveAcquiresSpaced == \A k \in Keys : Spaced(k)

\* two calls of one key in a row, the second of which had to wait, with a call
\* of the other key between them
C8_Witness ==
    \E k \in Keys, j \in Keys :
        /\ k # j
        /\ Len(returned[k]) = 2
        /\ returned[k][2].at - returned[k][1].at = INTERVAL
        /\ Len(returned[j]) >= 1
        /\ returned[j][Len(returned[j])].at > returned[k][1].at
        /\ returned[j][Len(returned[j])].at < returned[k][2].at

LastReturn(k) == returned[k][Len(returned[k])]

\* C20: every call of acquire(key) writes state[key], whether or not it
\* waited, and what it writes is the clock read after the wait: when acquire
\* has returned, state[key] is the time of the return, which is not earlier
\* than the time the wait ended.
C20_WritesTimeAfterWait ==
    \A k \in Keys :
        returned[k] # <<>> =>
            /\ k \in DOMAIN state
            /\ state[k] = LastReturn(k).at
            /\ state[k] >= LastReturn(k).woke

\* a call that did not wait and then a call that waited, both written
C20_Witness ==
    \E k \in Keys :
        /\ Len(returned[k]) = 2
        /\ returned[k][1].woke = 0
        /\ returned[k][2].woke > returned[k][1].at
        /\ state[k] = returned[k][2].at
        /\ state[k] > returned[k][1].at

\* what the limiter holds for key k: the time of the last return of
\* acquire(k), nothing before the first
EntryOf(k) == IF returned[k] = <<>> THEN 0 ELSE LastReturn(k).at

InAcquire(t) == tpc[t] \in {"if", "sleeping", "set"}

\* C21: a first acquire on a key that has no entry, made at a clock reading of
\* at least INTERVAL, does not wait; and when it has returned the key has an
\* entry.
C21_FirstAcquireDoesNotWait ==
    /\ \A t \in Threads :
          (InAcquire(t) /\ tkey[t] \notin DOMAIN state /\ clock_read[t] >= INTERVAL) =>
              /\ tpc[t] # "sleeping"
              /\ wake[t] = 0
    /\ \A k \in Keys : Len(returned[k]) = 1 => k \in DOMAIN state

\* the first acquire of a key returned without having waited and left an
\* entry, the other key still without one
C21_Witness ==
    \E k \in Keys, j \in Keys :
        /\ Len(returned[k]) = 1
        /\ returned[k][1].woke = 0
        /\ k \in DOMAIN state
        /\ state[k] >= INTERVAL
        /\ j \notin DOMAIN state

\* C22: the entry of a key is what the last acquire of that key wrote,
\* whatever acquires of other keys came after it (none has written it), and
\* the elapsed time acquire(k1) computes, hence whether and how long it
\* waits, is taken from the entry of k1 alone.
C22_KeysIndependent ==
    /\ \A k \in Keys :
          /\ k \in DOMAIN state <=> returned[k] # <<>>
          /\ k \in DOMAIN state => state[k] = EntryOf(k)
    /\ \A t \in Threads :
          InAcquire(t) =>
              /\ elapsed_time[t] = clock_read[t] - EntryOf(tkey[t])
              /\ tpc[t] = "sleeping" =>
                    /\ elapsed_time[t] < INTERVAL
                    /\ wake[t] - clock_read[t] >= INTERVAL - elapsed_time[t]
              /\ (tpc[t] = "set" /\ wake[t] = 0) => elapsed_time[t] >= INTERVAL

\* acquire(k) waits on its own entry while the other key has a later entry
C22_Witness ==
    \E k \in Keys, j \in Keys :
        /\ k # j
        /\ tpc[MainThread] = "sleeping"
        /\ tkey[MainThread] = k
        /\ k \in DOMAIN state
        /\ j \in DOMAIN state
        /\ state[j] > state[k]
        /\ elapsed_time[MainThread] = clock_read[MainThread] - state[k]

\* C17: acquire blocks for max(0, INTERVAL - elapsed) and so never for longer
\* than INTERVAL (and never for a negative time), whatever the clock read.
C17_Original ==
    \A t \in Threads :
        tpc[t] = "sleeping" =>
            /\ WaitTime(elapsed_time[t]) <= INTERVAL
            /\ WaitTime(elapsed_time[t]) > 0

\* C9: with several threads calling acquire on one key, any two returns (of
\* different threads too) are at least INTERVAL apart.
C9_Original ==
    \A k \in Keys :
        (Len(returned[k]) = 2 /\ returned[k][1].by # returned[k][2].by) => Spaced(k)

\* =========================================================================
\*  Properties of the endpoint wrappers
\* =========================================================================

WrapperDone == wpc = "done"
WrapperRaised(type) == wresult.kind = "raise" /\ wresult.exc.type = type

\* the request of the call ended on a transport- or protocol-level failure: a
\* network error or timeout, a body that could not be parsed, a response with
\* a 4xx or 5xx status
TransportFailure(o) ==
    \/ o.kind = "send_raised" /\ o.type \in {"ConnectionError", "HTTPError"}
    \/ o.kind = "read_raised" /\ o.type = "JSONDecodeError"
    \/ IsErrorStatus(o.status)

\* C15: every wrapper, add_order included, ends a call whose request failed
\* at the transport or protocol level by raising RequestFailed, and a call
\* whose body was parsed from an acceptable response and found to carry a
\* failure code by raising ApiError.
C15_Original ==
    (WrapperDone /\ Attempts >= 1) =>
        /\ TransportFailure(LastOutcome) => WrapperRaised("RequestFailed")
        /\ (~TransportFailure(LastOutcome) /\ LastOutcome.kind = "ok"
               /\ exc.type = "ApiError") => WrapperRaised("ApiError")

\* C16: a call of a wrapper that passes retries=1 makes exactly one send, and
\* returns the body or raises RequestFailed or ApiError.
C16_Original ==
    (WrapperDone /\ PassesKeyword(wname)) =>
        /\ NumSends = 1
        /\ \/ wresult.kind = "return" /\ wresult.value.shape = "body"
           \/ WrapperRaised("RequestFailed")
           \/ WrapperRaised("ApiError")

\* execute_request, called by the wrapper, raised
ExecuteRaised == wpc \in {"executing", "done"} /\ pc = "done" /\ result.kind = "raise"

\* C18 as stated: when execute_request raised, the wrapper has logged the
\* exception and its call ends raising that same exception, unchanged.
C18_Original ==
    (WrapperDone /\ ExecuteRaised) =>
        /\ wlogged
        /\ wresult.kind = "raise"
        /\ wresult.exc = result.exc

\* C18 as amended: when execute_request raised, the call of the wrapper ends
\* raising that same exception (type, errors, response and body unchanged) and
\* returns no value; the exception was logged by the wrappers whose body
\* stands in a try statement (get_kline, add_TP_SL_order, place_order) and
\* passes unlogged through those that have none (get_position_list,
\* get_positions_history, add_isolated_margin).
C18_SameExceptionReraised ==
    (WrapperDone /\ ExecuteRaised) =>
        /\ wresult.kind = "raise"
        /\ wresult.value = NoValue
        /\ wresult.exc = result.exc
        /\ wlogged <=> wname \in {"get_kline", "add_TP_SL_order", "place_order",
                                  "get_position_info", "query_unified_account_assets"}

\* a RequestFailed with two errors handed on by a wrapper that logs, after the
\* key of another call had been acquired
C18_Witness ==
    /\ WrapperDone
    /\ ExecuteRaised
    /\ wname = "get_kline"
    /\ wlogged
    /\ wresult.exc.type = "RequestFailed"
    /\ Len(wresult.exc.errors) = 2
    /\ Cardinality(DOMAIN state) = 2

\* a step changes the dict `state`
StateChanged == state' # state

\* C23: the dict of the limiter is changed by the return of acquire alone
\* (line 16) and by no step of execute_request or of a wrapper, whatever the
\* outcome; and no step removes a key.
C23_OnlyAcquireChangesState ==
    [][ /\ StateChanged =>
              /\ tpc[MainThread] = "set"
              /\ tpc'[MainThread] = "idle"
              /\ UNCHANGED execVars
        /\ DOMAIN state \subseteq DOMAIN state'
        /\ \A k \in DOMAIN state : k # tkey[MainThread] => state'[k] = state[k]
      ]_vars

\* a wrapper call that ended in RequestFailed, with the entries of two keys
C23_Witness ==
    /\ WrapperDone
    /\ RaisedRequestFailed
    /\ NumSends >= 2
    /\ Cardinality(DOMAIN state) = 2
    /\ \A k \in DOMAIN state : state[k] = LastReturn(k).at

\* the entries of the log between a send and the send before it: a sleep,
\* after the read of the earlier attempt if it got that far
OnlySleepBefore(i) ==
    /\ log[i - 1].op = "sleep"
    /\ \/ log[i - 2].op = "send"
       \/ i > 3 /\ log[i - 2].op = "read" /\ log[i - 3].op = "send"

C28_Original ==
    (OrderPlacement(wname) /\ wkwargs = NoKwargs) => NumSends <= 1

\* C29: distinct wrappers have distinct keys: a call that waits in acquire
\* waits because of an earlier call of the same wrapper, never because of a
\* call of another one.
C29_Original ==
    (wpc = "acquiring" /\ tpc[MainThread] = "sleeping") =>
        /\ wname \in wcalled
        /\ \A g \in wcalled : g # wname => WrapperKey(g) # WrapperKey(wname)

\* C31: in a call of a wrapper of a signed endpoint the request is signed
\* once for each send, directly before it is sent: the i-th request carries
\* the timestamp and the signature computed by the i-th signing, and nothing
\* computed for an earlier attempt has gone into that signature.
C31_Original ==
    Signed(wname) =>
        /\ wsigns = NumSends
        /\ Len(wsent) = NumSends
        /\ \A i \in DOMAIN wsent : wsent[i] = Auth(i, Signature(i, 0))

====
